---------------------------- MODULE Spec2Model ----------------------------
(***************************************************************************)
(* Model of src/scripts/index.ts of three-lab: the orbit camera controller *)
(* (polar coordinate, mouse handlers, setCameraPositionWithPolar, render)  *)
(* and the fragment shader's shading functions.                            *)
(*                                                                         *)
(* Numbers.  JavaScript numbers and GLSL floats are modelled in fixed      *)
(* point: angles in milliradians, every other quantity in thousandths      *)
(* (One = 1.0).  Quantities that carry the shader's EPSILON = 1e-6 are     *)
(* kept in millionths (Micro = 1.0) so that EPSILON is one unit and never  *)
(* rounds to zero.                                                         *)
(***************************************************************************)
EXTENDS Integers, Sequences, FiniteSets, TLC

VARIABLES
    isMouseDown,   \* index.ts:322  let isMouseDown
    polar,         \* index.ts:314  const polar: PolarCoordinate3
    camera,        \* index.ts:312  const camera (position, up, orientation)
    origin3,       \* index.ts:278  const origin3 = new THREE.Vector3(0, 0, 0)
    renderCount,   \* number of renderer.render(scene, camera) calls so far
    lastFrame,     \* the camera pose the last renderer.render call drew
    lastEvent,     \* the DOM event the last handler run was given
    accepted,      \* history: drag samples that passed the isMouseDown guard
    sumDx,         \* history: sum of movementX over the accepted samples
    sumDy,         \* history: sum of movementY over the accepted samples
    frag,          \* one fragment shader invocation (main)
    call           \* one application of a shading function to chosen inputs

vars == <<isMouseDown, polar, camera, origin3, renderCount, lastFrame,
          lastEvent, accepted, sumDx, sumDy, frag, call>>

camVars == <<isMouseDown, polar, camera, origin3, renderCount, lastFrame,
             lastEvent, accepted, sumDx, sumDy>>

-----------------------------------------------------------------------------
(* Fixed-point arithmetic *)

One == 10 * 10 * 10

Micro == One * One

Abs(x) == IF x < 0 THEN -x ELSE x

\* n / d rounded to the nearest integer (d > 0), symmetric about zero
RDiv(n, d) == IF n >= 0 THEN (2 * n + d) \div (2 * d)
                        ELSE -((2 * (-n) + d) \div (2 * d))

\* product of two thousandths
MulF(a, b) == RDiv(a * b, One)

RECURSIVE SqrtSearch(_, _, _)
SqrtSearch(n, lo, hi) ==
    IF lo >= hi THEN lo
    ELSE LET mid == (lo + hi + 1) \div 2
         IN  IF mid * mid <= n THEN SqrtSearch(n, mid, hi)
                               ELSE SqrtSearch(n, lo, mid - 1)

\* floor of the square root
Isqrt(n) == SqrtSearch(n, 0, 46340)

Vec3(x, y, z) == <<x, y, z>>

Sub3(a, b) == <<a[1] - b[1], a[2] - b[2], a[3] - b[3]>>

Add3(a, b) == <<a[1] + b[1], a[2] + b[2], a[3] + b[3]>>

\* squared length, in One * One units
LengthSq(v) == v[1] * v[1] + v[2] * v[2] + v[3] * v[3]

Length(v) == Isqrt(LengthSq(v))

Dot(a, b) == RDiv(a[1] * b[1] + a[2] * b[2] + a[3] * b[3], One)

Cross(a, b) == <<RDiv(a[2] * b[3] - a[3] * b[2], One),
                 RDiv(a[3] * b[1] - a[1] * b[3], One),
                 RDiv(a[1] * b[2] - a[2] * b[1], One)>>

\* three.js Vector3.normalize: divideScalar(length() || 1)
Normalize(v) ==
    LET len == Length(v)
    IN  IF len = 0 THEN v
        ELSE <<RDiv(v[1] * One, len), RDiv(v[2] * One, len), RDiv(v[3] * One, len)>>

-----------------------------------------------------------------------------
(* Trigonometry: angles in milliradians, results in thousandths *)

\* Math.PI in microradians
MathPI == 3141593

PiMrad == RDiv(MathPI, One)

TwoPiMrad == RDiv(2 * MathPI, One)

HalfPiMrad == RDiv(MathPI, 2 * One)

\* Taylor series of sin on [0, pi/2], x in milliradians
SinSeries(x) ==
    LET x2 == RDiv(x * x, One)
        t3 == RDiv(x * x2, One)
        t5 == RDiv(t3 * x2, One)
        t7 == RDiv(t5 * x2, One)
    IN  x - RDiv(t3, 6) + RDiv(t5, 120) - RDiv(t7, 5040)

Sin(x) ==
    LET r == x % TwoPiMrad
    IN  IF r <= HalfPiMrad THEN SinSeries(r)
        ELSE IF r <= PiMrad THEN SinSeries(PiMrad - r)
        ELSE IF r <= PiMrad + HalfPiMrad THEN -SinSeries(r - PiMrad)
        ELSE -SinSeries(TwoPiMrad - r)

Cos(x) == Sin(x + HalfPiMrad)

-----------------------------------------------------------------------------
(* Orbit camera controller *)

\* index.ts:276  deg2rad = Math.PI / 180.0, in microradians per degree
deg2rad == RDiv(MathPI, 180)

\* index.ts:315  phi: -90 * deg2rad, in milliradians
Phi0 == RDiv(-90 * deg2rad, One)

\* index.ts:316  theta: 60 * deg2rad, in milliradians
Theta0 == RDiv(60 * deg2rad, One)

\* index.ts:317  radius: 1.0
Radius0 == One

\* index.ts:334  the factor 0.002 rad per pixel, in milliradians
Sensitivity == 2

\* index.ts:341 and 415: window.onload renders twice before any event
InitialRenders == 2

\* movementX / movementY of a mouse event are drawn from {-DragStep, 0, DragStep}
DragStep == 600

\* at most MaxSamples drag samples are accepted in a run
MaxSamples == 2

Deltas == {-DragStep, 0, DragStep}

Zero3 == Vec3(0, 0, 0)

\* three.js Matrix4.lookAt(eye, target, up): the camera's axes x, y, z
LookAtMatrix(eye, target, up) ==
    LET d  == Sub3(eye, target)
        z0 == Normalize(IF LengthSq(d) = 0 THEN Vec3(d[1], d[2], One) ELSE d)
        x0 == Cross(up, z0)
        \* up and z parallel: z is nudged by 0.0001 along x (|up.z| = 1) or
        \* along z, which leaves x pointing along up x nudge
        x1 == IF LengthSq(x0) # 0 THEN x0
              ELSE IF Abs(up[3]) = One THEN Cross(up, Vec3(One, 0, 0))
              ELSE Cross(up, Vec3(0, 0, One))
        x  == Normalize(x1)
        y  == Cross(z0, x)
    IN  <<x, y, z0>>

\* index.ts:283-285  position on the sphere
PositionOf(p) ==
    LET sinTheta == Sin(p.theta)
        cosTheta == Cos(p.theta)
    IN  Vec3(MulF(MulF(p.radius, sinTheta), Cos(p.phi)),
             MulF(MulF(p.radius, sinTheta), Sin(p.phi)),
             MulF(p.radius, cosTheta))

\* index.ts:287-291  the up vector
UpOf(p) ==
    LET sinTheta == Sin(p.theta)
        cosTheta == Cos(p.theta)
    IN  Vec3(MulF(MulF(-One, cosTheta), Cos(p.phi)),
             MulF(MulF(-One, cosTheta), Sin(p.phi)),
             sinTheta)

\* three.js Object3D.lookAt on a camera: orientation from position, target, up
CameraLookAt(cam, target) ==
    [cam EXCEPT !.matrix = LookAtMatrix(cam.position, target, cam.up),
                !.target = target]

\* index.ts:280-292: position, then lookAt(origin3), then up
setCameraPositionWithPolar(p, cam, target) ==
    LET cam1 == [cam EXCEPT !.position = PositionOf(p)]
        cam2 == CameraLookAt(cam1, target)
    IN  [cam2 EXCEPT !.up = UpOf(p)]

\* new THREE.PerspectiveCamera: at the origin, identity orientation, up = +y
NewCamera ==
    [position |-> Zero3, up |-> Vec3(0, One, 0),
     matrix |-> <<Vec3(One, 0, 0), Vec3(0, One, 0), Vec3(0, 0, One)>>,
     target |-> Vec3(0, 0, -One)]

\* renderer.render(scene, camera) draws the camera's current pose
Frame(cam) == [position |-> cam.position, matrix |-> cam.matrix]

Polar0 == [phi |-> Phi0, theta |-> Theta0, radius |-> Radius0]

\* no shader invocation and no function application is in progress
Idle == [fn |-> "idle"]

\* index.ts:334-335 with a polar angle kept inside [0, pi]
DragPolarClamped(p, dx, dy) ==
    LET t == p.theta - Sensitivity * dy
    IN  [p EXCEPT !.phi = @ - Sensitivity * dx,
                  !.theta = IF t < 0 THEN 0 ELSE IF t > PiMrad THEN PiMrad ELSE t]

\* index.ts:334-335 with the vertical movement also zooming
DragPolarZoom(p, dx, dy) ==
    [p EXCEPT !.phi = @ - Sensitivity * dx,
              !.theta = @ - Sensitivity * dy,
              !.radius = @ + dy]

\* index.ts:334-335  polar.phi -= 0.002 * movementX; polar.theta -= 0.002 * movementY
DragPolar(p, dx, dy) ==
    [p EXCEPT !.phi = @ - Sensitivity * dx,
              !.theta = @ - Sensitivity * dy]

MouseEvent(type, dx, dy) == [type |-> type, movementX |-> dx, movementY |-> dy]

\* index.ts:323-325
mousedown ==
    /\ isMouseDown' = TRUE
    /\ lastEvent' = MouseEvent("mousedown", 0, 0)
    /\ UNCHANGED <<polar, camera, origin3, renderCount, lastFrame,
                   accepted, sumDx, sumDy, frag, call>>

\* index.ts:326-328
mouseup ==
    /\ isMouseDown' = FALSE
    /\ lastEvent' = MouseEvent("mouseup", 0, 0)
    /\ UNCHANGED <<polar, camera, origin3, renderCount, lastFrame,
                   accepted, sumDx, sumDy, frag, call>>

\* the mousemove handler without its isMouseDown guard
mousemoveUnguarded(dx, dy) ==
    /\ accepted < MaxSamples
    /\ lastEvent' = MouseEvent("mousemove", dx, dy)
    /\ LET polar1  == DragPolar(polar, dx, dy)
           camera1 == setCameraPositionWithPolar(polar1, camera, origin3)
       IN  /\ polar' = polar1
           /\ camera' = camera1
           /\ lastFrame' = Frame(camera1)
    /\ renderCount' = renderCount + 1
    /\ accepted' = accepted + 1
    /\ sumDx' = sumDx + dx
    /\ sumDy' = sumDy + dy
    /\ UNCHANGED <<isMouseDown, origin3, frag, call>>

\* the mousemove handler rendering before it recomputes the pose
mousemoveRenderFirst(dx, dy) ==
    /\ isMouseDown => accepted < MaxSamples
    /\ lastEvent' = MouseEvent("mousemove", dx, dy)
    /\ IF ~isMouseDown
       THEN UNCHANGED <<polar, camera, renderCount, lastFrame,
                        accepted, sumDx, sumDy>>
       ELSE /\ lastFrame' = Frame(camera)
            /\ renderCount' = renderCount + 1
            /\ polar' = DragPolar(polar, dx, dy)
            /\ camera' = setCameraPositionWithPolar(polar', camera, origin3)
            /\ accepted' = accepted + 1
            /\ sumDx' = sumDx + dx
            /\ sumDy' = sumDy + dy
    /\ UNCHANGED <<isMouseDown, origin3, frag, call>>

\* index.ts:329-339
mousemove(dx, dy) ==
    /\ isMouseDown => accepted < MaxSamples
    /\ lastEvent' = MouseEvent("mousemove", dx, dy)
    /\ IF ~isMouseDown
       THEN UNCHANGED <<polar, camera, renderCount, lastFrame,
                        accepted, sumDx, sumDy>>
       ELSE LET polar1  == DragPolar(polar, dx, dy)
                camera1 == setCameraPositionWithPolar(polar1, camera, origin3)
            IN  /\ polar' = polar1
                /\ camera' = camera1
                /\ lastFrame' = Frame(camera1)
                /\ renderCount' = renderCount + 1
                /\ accepted' = accepted + 1
                /\ sumDx' = sumDx + dx
                /\ sumDy' = sumDy + dy
    /\ UNCHANGED <<isMouseDown, origin3, frag, call>>

MouseMove == \E dx \in Deltas, dy \in Deltas : mousemove(dx, dy)

\* index.ts:294-416  the state window.onload leaves behind when #canvas-area
\* exists (without it onload returns at line 303 and registers no handler)
Init ==
    /\ isMouseDown = FALSE
    /\ polar = Polar0
    /\ origin3 = Zero3
    /\ camera = setCameraPositionWithPolar(Polar0, NewCamera, Zero3)
    /\ renderCount = InitialRenders
    /\ lastFrame = Frame(setCameraPositionWithPolar(Polar0, NewCamera, Zero3))
    /\ lastEvent = MouseEvent("none", 0, 0)
    /\ accepted = 0
    /\ sumDx = 0
    /\ sumDy = 0
    /\ frag = Idle
    /\ call = Idle

Next == mousedown \/ mouseup \/ MouseMove

Spec == Init /\ [][Next]_vars

-----------------------------------------------------------------------------
(* Claims about the camera controller, checked under Spec *)

PoseUnchanged ==
    /\ polar' = polar
    /\ camera' = camera
    /\ renderCount' = renderCount
    /\ lastFrame' = lastFrame

\* C1: a mousemove delivered while isMouseDown is false changes neither
\* polar.phi nor polar.theta, recomputes no pose and renders nothing; the flag
\* is false initially, false after every mouseup, and stays false until the
\* next mousedown.
C1_ReleasedMoveIsInert ==
    /\ ~isMouseDown
    /\ [][/\ (lastEvent'.type = "mousemove" /\ ~isMouseDown) => PoseUnchanged
          /\ lastEvent'.type = "mouseup" => ~isMouseDown'
          /\ (~isMouseDown /\ lastEvent'.type # "mousedown") => ~isMouseDown'
        ]_vars

\* a mousemove arrives after a drag has moved the camera and the button is up
C1_Witness ==
    /\ lastEvent.type = "mousemove"
    /\ lastEvent.movementX # 0
    /\ ~isMouseDown
    /\ accepted > 0
    /\ polar # Polar0

\* C2: every accepted drag sample subtracts 0.002 * movementX from phi and
\* 0.002 * movementY from theta, unclamped, so phi and theta are the initial
\* values minus 0.002 times the sums of the accepted deltas, also when theta
\* lies outside (0, pi).
C2_AnglesAreDeltaSums ==
    /\ [](/\ polar.phi = Phi0 - Sensitivity * sumDx
          /\ polar.theta = Theta0 - Sensitivity * sumDy)
    /\ [][accepted' = accepted + 1 =>
            /\ polar'.phi = polar.phi - Sensitivity * lastEvent'.movementX
            /\ polar'.theta = polar.theta - Sensitivity * lastEvent'.movementY
         ]_vars

\* two accepted samples have taken theta above pi
C2_Witness ==
    /\ accepted = 2
    /\ polar.theta > PiMrad
    /\ sumDx # 0

\* C3: after every pose computation the pose is a function of the current
\* polar coordinate alone: the orientation is the look-at-origin orientation
\* built with the up vector of the current phi and theta.
C3_PoseFromCurrentPolar ==
    /\ camera.position = PositionOf(polar)
    /\ camera.up = UpOf(polar)
    /\ camera.matrix = LookAtMatrix(PositionOf(polar), Zero3, UpOf(polar))

\* C4: each accepted drag sample renders exactly once, inside the handler and
\* after polar and the pose were updated, so the frame drawn shows the
\* position derived from the polar coordinate of that drag event; events that
\* are not accepted samples render nothing.
C4_OneRenderPerSample ==
    /\ [](/\ renderCount = InitialRenders + accepted
          /\ lastFrame.position = PositionOf(polar)
          /\ lastFrame = Frame(camera))
    /\ [][IF accepted' = accepted + 1
          THEN /\ renderCount' = renderCount + 1
               /\ lastFrame'.position =
                    PositionOf(DragPolar(polar, lastEvent'.movementX,
                                         lastEvent'.movementY))
          ELSE renderCount' = renderCount /\ lastFrame' = lastFrame
         ]_vars

\* a drag sample was accepted and its frame shows a moved camera
C4_Witness ==
    /\ accepted > 0
    /\ lastEvent.type = "mousemove"
    /\ lastEvent.movementY # 0
    /\ renderCount > InitialRenders
    /\ lastFrame.position # PositionOf(Polar0)

\* C10: after any sequence of events polar.radius is still 1.0 and the
\* look-at target is still the origin.
C10_RadiusAndTargetFixed ==
    /\ polar.radius = One
    /\ origin3 = Zero3
    /\ camera.target = Zero3

\* two drag samples were accepted and the button released again
C10_Witness ==
    /\ accepted = 2
    /\ sumDy # 0
    /\ lastEvent.type = "mouseup"

-----------------------------------------------------------------------------
(* Fragment shader: numbers *)

\* index.ts:30  #define PI 3.14159265359, in millionths
PI == 3141593

\* index.ts:35  #define EPSILON 1e-6, in millionths
EPSILON == 1

\* index.ts:142  #define LIGHT_MAX 4
LIGHT_MAX == 4

\* index.ts:153  int numDirectionalLights = 1;  (a global, not a uniform)
numDirectionalLights == 1

\* index.ts:224  the dielectric base reflectance 0.04, in thousandths
DielectricF0 == 40

\* shader inputs in [0, 1] are drawn from the multiples of 1 / Grid
Grid == 2

\* the numDirectionalLights uniform supplied by the page is drawn from 0 .. MaxLightsSupplied
MaxLightsSupplied == 2

\* magnitudes above FloatMax saturate: the largest value the model represents
FloatMax == 500 * One

\* what a division by zero (undefined in GLSL) may yield
UndefinedFloats == {0, FloatMax}

Min(a, b) == IF a < b THEN a ELSE b

Max(a, b) == IF a > b THEN a ELSE b

\* n / den for n >= 0 in thousandths and den > 0 in millionths, in thousandths,
\* by long division in base 100
DivMicro(n, den) ==
    IF n >= den THEN FloatMax
    ELSE LET s1 == n * 100
             q1 == s1 \div den
             s2 == (s1 % den) * 100
             q2 == s2 \div den
             s3 == (s2 % den) * 100
             q3 == s3 \div den
         IN  Min(q1 * 10000 + q2 * 100 + q3, FloatMax)

\* a division as GLSL evaluates it: its denominator and its possible results
Quotient(n, den) ==
    [dens   |-> {den},
     values |-> IF den = 0 THEN UndefinedFloats ELSE {DivMicro(n, den)}]

Scale3(v, s) == <<MulF(v[1], s), MulF(v[2], s), MulF(v[3], s)>>

Mul3(a, b) == <<MulF(a[1], b[1]), MulF(a[2], b[2]), MulF(a[3], b[3])>>

RECURSIVE PowInt(_, _)
PowInt(x, n) == IF n = 0 THEN One ELSE MulF(x, PowInt(x, n - 1))

\* GLSL clamp
clamp(x, lo, hi) == Min(Max(x, lo), hi)

\* index.ts:64-66
saturate(x) == clamp(x, 0, One)

\* GLSL mix with its weights exchanged
mixSwapped(x, y, a) == MulF(x, a) + MulF(y, One - a)

\* GLSL mix(x, y, a) = x * (1 - a) + y * a
mix(x, y, a) == MulF(x, One - a) + MulF(y, a)

mix3(x, y, a) == <<mix(x[1], y[1], a), mix(x[2], y[2], a), mix(x[3], y[3], a)>>

\* GLSL smoothstep(edge0, edge1, x); results are undefined if edge0 >= edge1
smoothstep(edge0, edge1, x) ==
    IF edge0 >= edge1 THEN {0, One}
    ELSE LET t == clamp(RDiv((x - edge0) * One, edge1 - edge0), 0, One)
         IN  {MulF(MulF(t, t), 3 * One - 2 * t)}

-----------------------------------------------------------------------------
(* Fragment shader: lights *)

\* testLightInRange accepting a light exactly at its cutoff distance
testLightInRangeInclusive(lightDistance, cutoffDistance) ==
    cutoffDistance = 0 \/ lightDistance <= cutoffDistance

\* index.ts:68-70
testLightInRange(lightDistance, cutoffDistance) ==
    cutoffDistance = 0 \/ lightDistance < cutoffDistance

\* index.ts:72-78; decayExponent is a whole number here
punctualLightIntensityToIrradianceFactor(lightDistance, cutoffDistance, decayExponent) ==
    IF decayExponent > 0
    THEN LET q == Quotient(lightDistance, cutoffDistance * One)
         IN  [dens   |-> q.dens,
              values |-> IF cutoffDistance = 0 THEN {0, One}
                         ELSE {PowInt(saturate(-v + One), decayExponent) : v \in q.values}]
    ELSE [dens |-> {}, values |-> {One}]

\* index.ts:85-89
getDirectionalDirectLightIrradiance(directionalLight, geometry) ==
    [color     |-> directionalLight.color,
     direction |-> directionalLight.direction,
     visible   |-> TRUE]

\* GLSL normalize; the result is undefined for the zero vector
normalize(v) ==
    IF LengthSq(v) = 0 THEN {Zero3, Vec3(0, 0, One)} ELSE {Normalize(v)}

\* index.ts:98-111: the possible results
getPointDirectLightIrradiance(pointLight, geometry) ==
    LET L == Sub3(pointLight.position, geometry.position)
        lightDistance == Length(L)
    IN  IF testLightInRange(lightDistance, pointLight.distance)
        THEN LET f == punctualLightIntensityToIrradianceFactor(
                          lightDistance, pointLight.distance, pointLight.decay)
             IN  {[color |-> Scale3(pointLight.color, v), direction |-> d,
                   visible |-> TRUE] : v \in f.values, d \in normalize(L)}
        ELSE {[color |-> Zero3, direction |-> d, visible |-> FALSE] :
                 d \in normalize(L)}

\* index.ts:123-139: the possible results
getSpotDirectLightIrradiance(spotLight, geometry) ==
    LET L == Sub3(spotLight.position, geometry.position)
        lightDistance == Length(L)
        Result(direction) ==
            LET angleCos == Dot(direction, spotLight.direction)
            IN  IF /\ angleCos > spotLight.coneCos
                   /\ testLightInRange(lightDistance, spotLight.distance)
                THEN LET f == punctualLightIntensityToIrradianceFactor(
                                  lightDistance, spotLight.distance, spotLight.decay)
                     IN  {[color |-> Scale3(spotLight.color, MulF(spotEffect, v)),
                           direction |-> direction, visible |-> TRUE] :
                             spotEffect \in smoothstep(spotLight.coneCos,
                                                       spotLight.penumbraCos, angleCos),
                             v \in f.values}
                ELSE {[color |-> Zero3, direction |-> direction, visible |-> FALSE]}
    IN  UNION {Result(d) : d \in normalize(L)}

-----------------------------------------------------------------------------
(* Fragment shader: BRDFs.  A function that divides yields the denominators   *)
(* it evaluated (in millionths) and the set of results it may produce.        *)

\* index.ts:160-162  diffuseColor / PI
DiffuseBRDF(diffuseColor) ==
    [dens   |-> {PI},
     values |-> {<<DivMicro(diffuseColor[1], PI), DivMicro(diffuseColor[2], PI),
                   DivMicro(diffuseColor[3], PI)>>}]

\* index.ts:164-166
F_Schlick(specularColor, H, V) ==
    LET w == PowInt(One - saturate(Dot(V, H)), 5)
    IN  <<specularColor[1] + MulF(One - specularColor[1], w),
          specularColor[2] + MulF(One - specularColor[2], w),
          specularColor[3] + MulF(One - specularColor[3], w)>>

\* index.ts:168-173
D_GGX(a, dotNH) ==
    LET a2     == MulF(a, a)
        dotNH2 == MulF(dotNH, dotNH)
        d      == MulF(dotNH2, a2 - One) + One
    IN  Quotient(a2, MulF(RDiv(PI, One), d) * d)

\* index.ts:175-180
G_Smith_Schlick_GGX(a, dotNV, dotNL) ==
    LET k  == RDiv(a * a, 2) + EPSILON
        gl == Quotient(dotNL, RDiv(dotNL * (Micro - k), One) + k)
        gv == Quotient(dotNV, RDiv(dotNV * (Micro - k), One) + k)
    IN  [dens   |-> gl.dens \union gv.dens,
         values |-> {MulF(l, v) : l \in gl.values, v \in gv.values}]

\* index.ts:183-201
SpecularBRDF(directLight, geometry, specularColor, roughnessFactor) ==
    LET N == geometry.normal
        V == geometry.viewDir
        L == directLight.direction
        dotNL == saturate(Dot(N, L))
        dotNV == saturate(Dot(N, V))
        a == MulF(roughnessFactor, roughnessFactor)
        G == G_Smith_Schlick_GGX(a, dotNV, dotNL)
        den == 4 * dotNL * dotNV + EPSILON
        Ds(H) == D_GGX(a, saturate(Dot(N, H)))
        Result(H, Dv, Gv) ==
            LET F  == F_Schlick(specularColor, V, H)
                GD == MulF(Gv, Dv)
            IN  <<DivMicro(MulF(F[1], GD), den), DivMicro(MulF(F[2], GD), den),
                  DivMicro(MulF(F[3], GD), den)>>
    IN  [dens   |-> UNION {Ds(H).dens : H \in normalize(Add3(L, V))}
                      \union G.dens \union {den},
         values |-> UNION {{Result(H, Dv, Gv) : Dv \in Ds(H).values, Gv \in G.values} :
                              H \in normalize(Add3(L, V))}]

\* index.ts:204-214: the denominators evaluated and the possible accumulators
RE_Direct(directLight, geometry, material, reflectedLight) ==
    LET dotNL == saturate(Dot(geometry.normal, directLight.direction))
        irradiance == Scale3(Scale3(directLight.color, dotNL), RDiv(PI, One))
        diffuse  == DiffuseBRDF(material.diffuseColor)
        specular == SpecularBRDF(directLight, geometry, material.specularColor,
                                 material.specularRoughness)
    IN  [dens   |-> diffuse.dens \union specular.dens,
         values |-> {[reflectedLight EXCEPT
                        !.directDiffuse = Add3(@, Mul3(irradiance, dv)),
                        !.directSpecular = Add3(@, Mul3(irradiance, sv))] :
                     dv \in diffuse.values, sv \in specular.values}]

-----------------------------------------------------------------------------
(* Fragment shader: main, one step per program section *)

GridValues == {RDiv(i * One, Grid) : i \in 0 .. Grid}

White == Vec3(One, One, One)

\* albedo colours: the page's white (index.ts:360) and a saturated colour
Albedos == {White, Vec3(One, RDiv(One, 2), 0)}

\* index.ts:357-393  the uniforms a material supplies
UniformSets ==
    [metallic : GridValues, roughness : GridValues, albedo : Albedos,
     numPointLights : {0}, numSpotLights : {0},
     numDirectionalLights : 0 .. MaxLightsSupplied]

\* interpolated varyings of a fragment, in view space: facing the eye, tilted,
\* and seen edge-on
Fragments ==
    {[vViewPosition |-> Vec3(0, 0, One), vNormal |-> Vec3(0, 0, 2 * One)],
     [vViewPosition |-> Vec3(0, 0, One), vNormal |-> Vec3(600, 0, 800)],
     [vViewPosition |-> Vec3(0, 0, One), vNormal |-> Vec3(One, 0, 0)]}

\* camera poses the controller reaches: the initial one and those one
\* horizontal drag sample away
CameraPoses ==
    LET cam0 == setCameraPositionWithPolar(Polar0, NewCamera, Zero3)
    IN  {cam0} \union
        {setCameraPositionWithPolar(DragPolar(Polar0, dx, 0), cam0, Zero3) :
            dx \in Deltas}

\* the rotation of three.js' viewMatrix: the inverse of the camera's orientation
ViewMatrix(cam) == cam.matrix

\* (vMat * vec4(v, 0.0)).xyz
TransformDirection(vMat, v) == <<Dot(vMat[1], v), Dot(vMat[2], v), Dot(vMat[3], v)>>

NoLight == [color |-> Zero3, direction |-> Zero3, visible |-> FALSE]

NoReflectedLight ==
    [directDiffuse |-> Zero3, directSpecular |-> Zero3,
     indirectDiffuse |-> Zero3, indirectSpecular |-> Zero3]

\* a fragment shader invocation about to run main
FragStart(u, f, cam) ==
    [fn |-> "main", pc |-> "setup", uniforms |-> u,
     vViewPosition |-> f.vViewPosition, vNormal |-> f.vNormal,
     vMat |-> ViewMatrix(cam),
     geometry |-> [position |-> Zero3, normal |-> Zero3, viewDir |-> Zero3],
     material |-> [diffuseColor |-> Zero3, specularColor |-> Zero3,
                   specularRoughness |-> 0],
     reflectedLight |-> NoReflectedLight, directLight |-> NoLight,
     i |-> 0, reCalls |-> 0, dens |-> {}, gl_FragColor |-> <<0, 0, 0, 0>>]

\* index.ts:217-233  geometry, material and accumulators
MainSetup ==
    /\ frag.fn = "main" /\ frag.pc = "setup"
    /\ frag' = [frag EXCEPT
          !.geometry = [position |-> Sub3(Zero3, frag.vViewPosition),
                        normal   |-> Normalize(frag.vNormal),
                        viewDir  |-> Normalize(frag.vViewPosition)],
          !.material = [diffuseColor |-> mix3(frag.uniforms.albedo, Zero3,
                                              frag.uniforms.metallic),
                        specularColor |-> mix3(Vec3(DielectricF0, DielectricF0,
                                                    DielectricF0),
                                               frag.uniforms.albedo,
                                               frag.uniforms.metallic),
                        specularRoughness |-> frag.uniforms.roughness],
          !.reflectedLight = NoReflectedLight,
          !.pc = "lights"]
    /\ UNCHANGED <<camVars, call>>

\* index.ts:254-262  one pass through the directional light loop
DirectionalLightLoop ==
    /\ frag.fn = "main" /\ frag.pc = "lights"
    /\ IF frag.i < LIGHT_MAX /\ ~(frag.i >= numDirectionalLights)
       THEN LET directionalLight ==
                    [direction |-> TransformDirection(frag.vMat, White),
                     color |-> White]
                directLight == getDirectionalDirectLightIrradiance(
                                   directionalLight, frag.geometry)
                re == RE_Direct(directLight, frag.geometry, frag.material,
                                frag.reflectedLight)
            IN  \E r \in re.values :
                    frag' = [frag EXCEPT !.directLight = directLight,
                                         !.reflectedLight = r,
                                         !.dens = @ \union re.dens,
                                         !.reCalls = @ + 1,
                                         !.i = @ + 1]
       ELSE frag' = [frag EXCEPT !.pc = "output"]
    /\ UNCHANGED <<camVars, call>>

\* index.ts:264-266
MainOutput ==
    /\ frag.fn = "main" /\ frag.pc = "output"
    /\ LET r == frag.reflectedLight
           outgoingLight == Add3(Add3(Add3(Add3(Zero3, r.directDiffuse),
                                 r.directSpecular), r.indirectDiffuse),
                                 r.indirectSpecular)
       IN  frag' = [frag EXCEPT
              !.gl_FragColor = <<outgoingLight[1], outgoingLight[2],
                                 outgoingLight[3], One>>,
              !.pc = "done"]
    /\ UNCHANGED <<camVars, call>>

CameraAtRest ==
    /\ isMouseDown = FALSE
    /\ polar = Polar0
    /\ origin3 = Zero3
    /\ camera = setCameraPositionWithPolar(Polar0, NewCamera, Zero3)
    /\ renderCount = InitialRenders
    /\ lastFrame = Frame(setCameraPositionWithPolar(Polar0, NewCamera, Zero3))
    /\ lastEvent = MouseEvent("none", 0, 0)
    /\ accepted = 0
    /\ sumDx = 0
    /\ sumDy = 0

\* a fragment of a rendered frame: any material, any fragment, any reached pose
InitShade ==
    /\ CameraAtRest
    /\ call = Idle
    /\ \E u \in UniformSets, f \in Fragments, cam \in CameraPoses :
           frag = FragStart(u, f, cam)

NextShade == MainSetup \/ DirectionalLightLoop \/ MainOutput

SpecShade == InitShade /\ [][NextShade]_vars

-----------------------------------------------------------------------------
(* Shading functions applied to chosen inputs *)

\* decay exponents are drawn from 0 .. MaxDecay
MaxDecay == 2

\* cutoff distances are drawn from 0 .. MaxCutoff, in whole units
MaxCutoff == 2

Cutoffs == {c * One : c \in 0 .. MaxCutoff}

\* unit vectors: along z, tilted towards x, along x
UnitVectors == {Vec3(0, 0, One), Vec3(600, 0, 800), Vec3(One, 0, 0)}

\* the surface point lights are evaluated at
SurfacePoint == [position |-> Vec3(0, 0, -One), normal |-> Vec3(0, 0, One),
                 viewDir |-> Vec3(0, 0, One)]

\* light positions at separations 0, 1, 1, 1.5 and 2 from SurfacePoint
LightPositions ==
    {Vec3(0, 0, -One), Vec3(0, 0, 0), Vec3(600, 800, -One),
     Vec3(0, 1500, -One), Vec3(0, 0, One)}

PointLights ==
    [position : LightPositions, color : Albedos,
     distance : Cutoffs, decay : 0 .. MaxDecay]

SpotLights ==
    [position : LightPositions \ {SurfacePoint.position},
     direction : {Vec3(0, 0, One), Vec3(0, One, 0)},
     color : {White}, distance : Cutoffs, decay : {0, MaxDecay},
     coneCos : {0, 600, One}, penumbraCos : {600, 800}]

ApplyD_GGX ==
    /\ call = Idle
    /\ UNCHANGED <<camVars, frag>>
    /\ \E a \in GridValues, dotNH \in GridValues :
           LET r == D_GGX(a, dotNH)
           IN  \E v \in r.values :
                   call' = [fn |-> "D_GGX", a |-> a, dotNH |-> dotNH,
                            dens |-> r.dens, result |-> v]

ApplyG_Smith_Schlick_GGX ==
    /\ call = Idle
    /\ UNCHANGED <<camVars, frag>>
    /\ \E a \in GridValues, dotNV \in GridValues, dotNL \in GridValues :
           LET r == G_Smith_Schlick_GGX(a, dotNV, dotNL)
           IN  \E v \in r.values :
                   call' = [fn |-> "G_Smith_Schlick_GGX", a |-> a, dotNV |-> dotNV,
                            dotNL |-> dotNL, dens |-> r.dens, result |-> v]

ApplySpecularBRDF ==
    /\ call = Idle
    /\ UNCHANGED <<camVars, frag>>
    /\ \E N \in UnitVectors, V \in UnitVectors, L \in UnitVectors,
          roughnessFactor \in GridValues :
           LET directLight == [color |-> White, direction |-> L, visible |-> TRUE]
               geometry == [position |-> Zero3, normal |-> N, viewDir |-> V]
               r == SpecularBRDF(directLight, geometry, White, roughnessFactor)
           IN  \E v \in r.values :
                   call' = [fn |-> "SpecularBRDF", directLight |-> directLight,
                            geometry |-> geometry, roughnessFactor |-> roughnessFactor,
                            dens |-> r.dens, result |-> v]

ApplyDiffuseBRDF ==
    /\ call = Idle
    /\ UNCHANGED <<camVars, frag>>
    /\ \E diffuseColor \in Albedos :
           LET r == DiffuseBRDF(diffuseColor)
           IN  \E v \in r.values :
                   call' = [fn |-> "DiffuseBRDF", diffuseColor |-> diffuseColor,
                            dens |-> r.dens, result |-> v]

ApplyPunctual ==
    /\ call = Idle
    /\ UNCHANGED <<camVars, frag>>
    /\ \E lightDistance \in {Length(Sub3(p, SurfacePoint.position)) : p \in LightPositions},
          cutoffDistance \in Cutoffs, decayExponent \in 0 .. MaxDecay :
           LET r == punctualLightIntensityToIrradianceFactor(
                        lightDistance, cutoffDistance, decayExponent)
           IN  \E v \in r.values :
                   call' = [fn |-> "punctualLightIntensityToIrradianceFactor",
                            lightDistance |-> lightDistance,
                            cutoffDistance |-> cutoffDistance,
                            decayExponent |-> decayExponent,
                            dens |-> r.dens, result |-> v]

ApplyPoint ==
    /\ call = Idle
    /\ UNCHANGED <<camVars, frag>>
    /\ \E pointLight \in PointLights :
           \E directLight \in getPointDirectLightIrradiance(pointLight, SurfacePoint) :
               call' = [fn |-> "getPointDirectLightIrradiance", light |-> pointLight,
                        geometry |-> SurfacePoint, result |-> directLight]

ApplySpot ==
    /\ call = Idle
    /\ UNCHANGED <<camVars, frag>>
    /\ \E spotLight \in SpotLights :
           \E directLight \in getSpotDirectLightIrradiance(spotLight, SurfacePoint) :
               call' = [fn |-> "getSpotDirectLightIrradiance", light |-> spotLight,
                        geometry |-> SurfacePoint, result |-> directLight]

InitFn == CameraAtRest /\ frag = Idle /\ call = Idle

NextFn ==
    \/ ApplyD_GGX
    \/ ApplyG_Smith_Schlick_GGX
    \/ ApplySpecularBRDF
    \/ ApplyDiffuseBRDF
    \/ ApplyPunctual
    \/ ApplyPoint
    \/ ApplySpot

SpecFn == InitFn /\ [][NextFn]_vars

-----------------------------------------------------------------------------
(* Claims about the shading functions, checked under SpecFn *)

ShadingDivisions ==
    {"D_GGX", "G_Smith_Schlick_GGX", "SpecularBRDF", "DiffuseBRDF",
     "punctualLightIntensityToIrradianceFactor"}

\* C5: no division evaluated by D_GGX, G_Smith_Schlick_GGX, SpecularBRDF,
\* DiffuseBRDF or punctualLightIntensityToIrradianceFactor has a zero
\* denominator, for every roughness and every dot product in [0, 1] and every
\* light with distance >= 0 and any decay.
C5_NoZeroDenominator ==
    call.fn \in ShadingDivisions => 0 \notin call.dens

RangeExcluded(light, geometry) ==
    /\ light.distance # 0
    /\ \/ light.distance < 0
       \/ LengthSq(Sub3(light.position, geometry.position))
             >= light.distance * light.distance

\* C8: a point light's IncidentLight is invisible exactly when distance # 0
\* and the separation is at least distance; a spot light's exactly when that
\* holds or angleCos <= coneCos; an invisible light has color (0, 0, 0); a
\* light with distance = 0 is never excluded by range.
C8_ExcludedLightsAreDark ==
    /\ call.fn = "getPointDirectLightIrradiance" =>
          LET excluded == RangeExcluded(call.light, call.geometry)
          IN  /\ call.result.visible = ~excluded
              /\ ~call.result.visible => call.result.color = Zero3
              /\ call.light.distance = 0 => call.result.visible
    /\ call.fn = "getSpotDirectLightIrradiance" =>
          LET angleCos == Dot(call.result.direction, call.light.direction)
              excluded == \/ RangeExcluded(call.light, call.geometry)
                          \/ angleCos <= call.light.coneCos
          IN  /\ call.result.visible = ~excluded
              /\ ~call.result.visible => call.result.color = Zero3
              /\ (call.light.distance = 0 /\ angleCos > call.light.coneCos)
                    => call.result.visible

\* a coloured point light exactly at its cutoff distance came out invisible
C8_Witness ==
    /\ call.fn = "getPointDirectLightIrradiance"
    /\ call.light.distance = One
    /\ LengthSq(Sub3(call.light.position, call.geometry.position)) = One * One
    /\ call.light.color # Zero3
    /\ ~call.result.visible

-----------------------------------------------------------------------------
(* Claims about main, checked under SpecShade *)

FragColorRGB == <<frag.gl_FragColor[1], frag.gl_FragColor[2], frag.gl_FragColor[3]>>

\* C6: the number of RE_Direct calls of one evaluation equals the
\* numDirectionalLights value supplied in the uniforms; a supplied 0 gives no
\* accumulation and the rgb output (0, 0, 0).
C6_LoopCountIsSuppliedUniform ==
    (frag.fn = "main" /\ frag.pc = "done") =>
        /\ frag.reCalls = frag.uniforms.numDirectionalLights
        /\ frag.uniforms.numDirectionalLights = 0 => FragColorRGB = Zero3

\* C7: every IncidentLight handed to RE_Direct has a direction of unit length
\* (squared norm 1, up to one percent of fixed-point rounding), for every
\* camera pose.
C7_LightDirectionIsUnit ==
    (frag.fn = "main" /\ frag.reCalls > 0) =>
        Abs(LengthSq(frag.directLight.direction) - One * One) <= 10 * One

\* C9: diffuseColor = albedo * (1 - metallic) and specularColor =
\* 0.04 * (1 - metallic) + albedo * metallic per channel; metallic = 1 gives
\* diffuseColor (0, 0, 0) and specularColor = albedo, metallic = 0 gives
\* specularColor (0.04, 0.04, 0.04) and diffuseColor = albedo.
C9_MaterialIsLerp ==
    (frag.fn = "main" /\ frag.pc # "setup") =>
        LET metallic == frag.uniforms.metallic
            albedo   == frag.uniforms.albedo
            material == frag.material
        IN  /\ \A c \in 1 .. 3 :
                 /\ material.diffuseColor[c] = MulF(albedo[c], One - metallic)
                 /\ material.specularColor[c] =
                       MulF(DielectricF0, One - metallic) + MulF(albedo[c], metallic)
            /\ metallic = One =>
                 material.diffuseColor = Zero3 /\ material.specularColor = albedo
            /\ metallic = 0 =>
                 /\ material.specularColor =
                       Vec3(DielectricF0, DielectricF0, DielectricF0)
                 /\ material.diffuseColor = albedo

\* a fully metallic, coloured material was shaded
C9_Witness ==
    /\ frag.fn = "main"
    /\ frag.pc = "done"
    /\ frag.uniforms.metallic = One
    /\ frag.uniforms.albedo # White
    /\ frag.material.specularColor = frag.uniforms.albedo

=============================================================================
